---- MODULE Spec2Model ----
(***************************************************************************)
(* CFNetwork: the buffered-read engine of Connection (Connection.cpp).     *)
(*                                                                         *)
(* One Connection owns a descriptor (socket) and a FIFO byte buffer.  The  *)
(* caller invokes enqueueData, read, readDelim and write; each call runs   *)
(* up to the next blocking read(2) in one step, and every return of        *)
(* read(2) is a step of its own.  The peer and the kernel are the          *)
(* environment: the peer sends bytes into the receive queue (wire), may    *)
(* shut its write side down, and a read(2) may fail at any time.           *)
(***************************************************************************)
EXTENDS Integers, Sequences, FiniteSets, TLC

\* ------------------------------------------------------------------ bounds
\* CFNetwork.hpp sets MAX_BYTES to 8192; the model scales the cap down so
\* that requests above, at and below the cap are all explored.
MAX_BYTES == 2
\* largest request_length a caller passes
MaxReq == 4
\* total number of bytes the peer sends in one behaviour
MaxSent == 4
\* the per-call counter of underlying reads saturates here
MaxReads == 3
\* the counter of close(2) calls saturates here
MaxCloses == 2

\* ------------------------------------------------------------- constants
NEWLINE == "\n"
Bytes == {"a", NEWLINE}
\* payloads handed to write()
Payloads == {<<>>, <<"a">>}
\* errno value of a query on a descriptor that is not open
EBADF == 9
\* errno value of a system call that failed for another reason
EIO == 5
\* the errno values told apart
Errnos == {0, EIO, EBADF}
\* std::string::npos, the "not found" result of find
npos == -1

VARIABLES
  buffer,          \* Connection::buffer
  fd,              \* the descriptor this->socket names: "none" (-1) | "open" |
                   \* "closed" | "other" (the number names another instance's)
  closes,          \* number of close(2) calls made on this->socket
  wire,            \* bytes the peer sent that no read(2) has delivered yet
  peer,            \* "open" | "closed" (the peer shut down its write side)
  delivered,       \* history: every byte read(2) delivered, in order
  returned,        \* history: every byte read/readDelim returned, in order
  writes,          \* history: write(2) calls issued by the current call
  lastWrite,       \* history: payload of the write(2) of the current call
  wrote,           \* history: what the write(2) of the current call returned
  pc,              \* "new" | "failed" | "idle" | "read_fn" (blocked in read(2)) | "destroyed"
  call,            \* the public call in progress, or the last one made
  reliable,        \* enqueueData: parameter reliable
  request_length,  \* enqueueData: request_length after the cap of line 192
  read_length,     \* enqueueData: bytes still outstanding
  sysreq,          \* history: byte count asked of the last read(2) of the call
  return_val,      \* history: what the last read(2) of the call returned
  offset,          \* readDelim: search offset
  reads,           \* history: read(2) calls issued by the current call
  buf0,            \* history: buffer when the current call was entered
  got,             \* history: bytes read(2) delivered during the current call
  status,          \* "none" | "running" | "ok" | "InvalidArgument" | "UnexpectedError"
  retCount,        \* <<k>>: the size_t enqueueData returned; <<>> when none
  retData,         \* the string read/readDelim returned
  peerFirst,       \* history: <<the first write() of a peer Connection>>, or <<>>
  conn,            \* Connection members family, flow, listen, port, remote
  sock,            \* the Socket object: its members and its descriptor
  ctor,            \* the constructor call in progress, or the last one made
  sys,             \* history: socket-level system calls of that constructor
  dtor,            \* history: what ~Connection did: "none" | "closed" | "skipped"
  errno,           \* errno as constructors, accept and destructors leave it
  probe            \* history: the last valid() of a constructor, accept or
                   \* destructor: fcntl's result, errno after it, the answer

vars == <<buffer, fd, closes, wire, peer, delivered, returned, writes,
          lastWrite, wrote, pc, call, reliable, request_length, read_length,
          sysreq, return_val, offset, reads, buf0, got, status, retCount,
          retData, peerFirst, conn, sock, ctor, sys, dtor, errno, probe>>

\* what only constructors and destructors touch
objVars == <<conn, sock, ctor, sys, dtor, errno, probe>>

\* what no call on a constructed Connection touches
outerVars == <<sock, ctor, sys, dtor, errno, probe>>

\* ------------------------------------------------------------- helpers
Min(a, b) == IF a < b THEN a ELSE b

Max(a, b) == IF a > b THEN a ELSE b

Sat(n, cap) == IF n < cap THEN n + 1 ELSE cap

\* std::string::substr(pos, len), 0-based, len clamped to the end
Substr(s, pos, len) == SubSeq(s, pos + 1, pos + Min(len, Len(s) - pos))

\* std::string::erase(pos, len), 0-based, len clamped to the end
Erase(s, pos, len) ==
  SubSeq(s, 1, pos) \o SubSeq(s, pos + Min(len, Len(s) - pos) + 1, Len(s))

\* a find that returns the last occurrence instead of the first
Find_last(s, c, off) ==
  LET hits == {i \in off..(Len(s) - 1) : s[i + 1] = c}
  IN  IF hits = {} THEN npos
      ELSE CHOOSE i \in hits : \A j \in hits : i >= j

\* std::string::find(c, off): 0-based position of the first c at or after off
Find(s, c, off) ==
  LET hits == {i \in off..(Len(s) - 1) : s[i + 1] = c}
  IN  IF hits = {} THEN npos
      ELSE CHOOSE i \in hits : \A j \in hits : i <= j

\* fcntl(socket, F_GETFD) on a descriptor in state f: the flags, or -1
FcntlRet(f) == IF f \in {"open", "other"} THEN 0 ELSE -1

\* errno after that fcntl: a failure sets it, a success leaves it as it was
FcntlErrno(f, e) == IF FcntlRet(f) = -1 THEN EBADF ELSE e

\* a validity test that wants both the query and errno in order
ValidOf_both(ret, e) == ret # -1 /\ e # EBADF

\* valid(), from what fcntl returned and what errno holds afterwards:
\* fcntl(socket, F_GETFD) != -1 || errno != EBADF
ValidOf(ret, e) == ret # -1 \/ e # EBADF

\* valid() on a descriptor in state f
ValidFd(f) == ValidOf(FcntlRet(f), FcntlErrno(f, errno))

\* what the histories keep of a valid() on a descriptor in state f
Probed(f) ==
  [asked |-> TRUE, ret |-> FcntlRet(f), errno |-> FcntlErrno(f, errno),
   result |-> ValidFd(f)]

\* a validity test that always passes
valid_always == TRUE

\* Connection::valid()
valid == ValidFd(fd)

\* a length check that lets every length through
LengthInvalid_never(len) == FALSE

\* enqueueData line 187: is the requested length invalid
LengthInvalid(len) == len = 0

\* enqueueData line 192: the target of this call
CappedRequest(rel, len) ==
  IF rel THEN len ELSE (IF len < MAX_BYTES THEN len ELSE MAX_BYTES)

\* a read(2) count that forgets the bytes still outstanding
ReadCount_cap(rl) == MAX_BYTES

\* enqueueData line 205: the count passed to read(2)
ReadCount(rl) == IF rl <= MAX_BYTES THEN rl ELSE MAX_BYTES

\* a loop condition that never repeats the read
LoopAgain_once(rel, rv, rl) == FALSE

\* a loop condition that forgets the mode
LoopAgain_anymode(rel, rv, rl) == rv >= 0 /\ rl > 0

\* enqueueData line 229: the loop condition
LoopAgain(rel, rv, rl) == rel /\ rv >= 0 /\ rl > 0

\* a success test that takes end of stream for a failure
ReadSucceeded_pos(rv) == rv > 0

\* enqueueData line 209: did read(2) succeed
ReadSucceeded(rv) == rv >= 0

\* a close that is forgotten
Close_noop(f) == f

\* close(2) on a descriptor in state f: an open descriptor is closed
\* afterwards, anything else is left as it is (the call fails)
Close(f) == IF f \in {"open", "other"} THEN "closed" ELSE f

\* an append at the wrong end
AppendData_front(buf, data) == data \o buf

\* an append that drops what was read
AppendData_drop(buf, data) == buf

\* enqueueData line 215: append the bytes read to the internal buffer
AppendData(buf, data) == buf \o data

\* a test that enqueues although the buffer holds exactly n bytes
NeedsEnqueue_le(buf_length, n) == buf_length <= n

\* read line 335: does read() have to enqueue first
NeedsEnqueue(buf_length, n) == buf_length < n

\* a top-up that asks for the shortfall in both modes
RemainingLength_shortfall(rel, n, buf_length) == n - buf_length

\* read line 338: how much read() asks enqueueData for
RemainingLength(rel, n, buf_length) ==
  IF rel THEN n - buf_length ELSE MAX_BYTES

\* a length that hands out the whole buffer
StrLength_all(n, buf_length) == buf_length

\* read line 346: how many bytes read() hands out
StrLength(n, buf_length) == IF n < buf_length THEN n ELSE buf_length

\* a payload that never gets the newline
WritePayload_plain(data, newline) == data

\* write line 420: the bytes handed to write(2)
WritePayload(data, newline) ==
  IF newline THEN data \o <<NEWLINE>> ELSE data

\* what write(2) can return for payload p: -1 on an error, else the number
\* of bytes the kernel took, which may be fewer than Len(p)
WriteOutcomes(p) == {-1} \cup (IF p = <<>> THEN {0} ELSE 1..Len(p))

\* what a blocking read(2) of cnt bytes can return now: -1 on an error, the
\* number of bytes taken from the head of the receive queue, 0 at end of
\* stream; with nothing queued and the peer still open the call blocks
ReadOutcomes(cnt) ==
  {-1} \cup (IF wire # <<>> THEN 1..Min(cnt, Len(wire))
             ELSE IF peer = "closed" THEN {0} ELSE {})

\* the texts handed to constructors as addresses
Addrs == {"127.0.0.1", "::1", "0:0:0:0:0:0:0:1", "localhost"}

\* the port numbers handed to constructors
Ports == {0, 1, 65535, 70000}

\* a range test that lets port 0 through
PortOutOfRange_zero(port) == port < 0 \/ port > 65535

\* the port test every constructor starts with
PortOutOfRange(port) == port < 1 \/ port > 65535

\* parseAddress(): getaddrinfo with AI_NUMERICHOST; ok is FALSE where the
\* code throws InvalidArgument, sin is the binary address otherwise
parseAddress(addr) ==
  CASE addr = "127.0.0.1" ->
         [ok |-> TRUE, ss_family |-> "AF_INET", sin |-> <<"7f000001">>]
    [] addr \in {"::1", "0:0:0:0:0:0:0:1"} ->
         [ok |-> TRUE, ss_family |-> "AF_INET6", sin |-> <<"0", "1">>]
    [] addr = "::" ->
         [ok |-> TRUE, ss_family |-> "AF_INET6", sin |-> <<"0", "0">>]
    [] OTHER ->
         [ok |-> FALSE, ss_family |-> "AF_UNSPEC", sin |-> <<>>]

\* inet_ntop(): the canonical text of a binary address; an IPv6 address is
\* kept as its two 8-byte halves
inet_ntop(address) ==
  CASE address.ss_family = "AF_INET" -> "127.0.0.1"
    [] address.ss_family = "AF_INET6" /\ address.sin = <<"0", "1">> -> "::1"
    [] OTHER -> "::"

\* the families a constructor accepts
FamilyOk(address) == address.ss_family \in {"AF_INET", "AF_INET6"}

\* SocketFamily of an accepted address
FamilyOf(address) == IF address.ss_family = "AF_INET" THEN "IPv4" ELSE "IPv6"

\* a family test that forgets to compare the two addresses
FamiliesMatch_any(laddress, raddress) == FamilyOk(laddress)

\* the family test of the inbound constructor
FamiliesMatch(laddress, raddress) ==
  laddress.ss_family = raddress.ss_family /\ FamilyOk(laddress)

\* an outbound constructor that forgets to store the port
Dialed_noport(made, address, port) ==
  [made EXCEPT !.family = FamilyOf(address), !.remote = inet_ntop(address)]

\* outbound constructor lines 45-56: family, remote and port are stored
Dialed(made, address, port) ==
  [made EXCEPT !.family = FamilyOf(address), !.remote = inet_ntop(address),
               !.port = port]

\* socket(2) returns a new open descriptor, or -1
SocketOutcomes == {"open", "none"}

\* Socket.hpp lines 37-52: the members of a Socket before its constructor
\* has run; st is "new" | "failed" | "ready", fd the state of its descriptor
NoSocket ==
  [st |-> "new", family |-> "IPv4", host |-> "0.0.0.0", port |-> 0,
   fd |-> "none"]

\* ------------------------------------------------------------------ Init
\* no call has been made yet on the Connection
Fresh ==
  /\ buffer = <<>>
  /\ closes = 0
  /\ wire = <<>>
  /\ peer = "open"
  /\ delivered = <<>>
  /\ returned = <<>>
  /\ writes = 0
  /\ lastWrite = <<>>
  /\ wrote = 0
  /\ call = [op |-> "none", reliable |-> FALSE, n |-> 0, delim |-> NEWLINE,
             data |-> <<>>, newline |-> FALSE]
  /\ reliable = FALSE
  /\ request_length = 0
  /\ read_length = 0
  /\ sysreq = 0
  /\ return_val = 0
  /\ offset = 0
  /\ reads = 0
  /\ buf0 = <<>>
  /\ got = <<>>
  /\ status = "none"
  /\ retCount = <<>>
  /\ retData = <<>>
  /\ peerFirst = <<>>
  /\ dtor = "none"
  /\ errno = 0
  /\ probe = [asked |-> FALSE, ret |-> 0, errno |-> 0, result |-> FALSE]

\* a Connection as Connection("127.0.0.1", 1) leaves it when connect succeeds
Init ==
  /\ Fresh
  /\ fd = "open"
  /\ pc = "idle"
  /\ conn = [family |-> "IPv4", flow |-> "Outbound", listen |-> "",
             port |-> 1, remote |-> "127.0.0.1"]
  /\ sock = NoSocket
  /\ ctor = [op |-> "Connection", addr |-> "127.0.0.1", laddr |-> "",
             raddr |-> "", port |-> 1, socket |-> "none", status |-> "ok"]
  /\ sys = <<"socket", "connect">>

\* before any constructor has run: the member initialisers of Connection.hpp
InitCtor ==
  /\ Fresh
  /\ fd = "none"
  /\ pc = "new"
  /\ conn = [family |-> "IPv4", flow |-> "Inbound", listen |-> "",
             port |-> 0, remote |-> "0.0.0.0"]
  /\ sock = NoSocket
  /\ ctor = [op |-> "none", addr |-> "", laddr |-> "", raddr |-> "",
             port |-> 0, socket |-> "none", status |-> "none"]
  /\ sys = <<>>

\* ------------------------------------------------- fragments of actions
\* the public call is left, by return or by exception: its locals and those
\* of enqueueData go out of scope
Leave ==
  /\ pc' = "idle"
  /\ reliable' = FALSE
  /\ request_length' = 0
  /\ read_length' = 0
  /\ offset' = 0

\* an exception leaves the public call: no value is returned
Throw(kind) ==
  /\ Leave
  /\ status' = kind
  /\ retCount' = <<>>
  /\ retData' = <<>>

\* a call that resets the members it was constructed with
MembersAfterCall_reset(c) == [c EXCEPT !.flow = "Inbound", !.port = 0]

\* family, flow, listen, port and remote after enqueueData, read, readDelim,
\* write or the destructor: none of them assigns any
MembersAfterCall(c) == c

\* entry of a public call: what the histories remember of it
StartCall(op, rel, n, d, data, nl) ==
  /\ call' = [op |-> op, reliable |-> rel, n |-> n, delim |-> d,
              data |-> data, newline |-> nl]
  /\ buf0' = buffer
  /\ got' = <<>>
  /\ reads' = 0
  /\ return_val' = 0
  /\ conn' = MembersAfterCall(conn)

\* enqueueData lines 184-206: from entry to the first read(2), or a throw.
\* len > 0 and MAX_BYTES > 0 (the assert of line 185) make read_length > 0
\* at line 199, so a call that passes both checks always issues a read(2).
\* off is the caller's local offset (readDelim), kept while the call runs.
EnqueueEnter(rel, len, off) ==
  IF LengthInvalid(len)
    THEN /\ Throw("InvalidArgument")
         /\ sysreq' = 0
    ELSE LET rl == CappedRequest(rel, len) IN
         IF ~valid
           THEN /\ Throw("InvalidArgument")
                /\ sysreq' = 0
           ELSE /\ pc' = "read_fn"
                /\ reliable' = rel
                /\ request_length' = rl
                /\ read_length' = rl
                /\ offset' = off
                /\ sysreq' = ReadCount(rl)
                /\ status' = "running"
                /\ retCount' = <<>>
                /\ retData' = <<>>

\* read lines 345-352: hand out the head of the buffer b
ReadFinish(b, n) ==
  LET str_length == StrLength(n, Len(b))
      data == Substr(b, 0, str_length)
  IN  /\ buffer' = Erase(b, 0, str_length)
      /\ returned' = returned \o data
      /\ retData' = data
      /\ retCount' = <<>>
      /\ status' = "ok"
      /\ Leave

\* readDelim lines 376-386: one evaluation of the loop condition on the
\* buffer b with search offset off, then either the loop body up to the
\* read(2) of enqueueData() (defaults: unreliable, MAX_BYTES) or the exit;
\* sq is the count asked of the last read(2) of this call, 0 if none
\* a search that resumes one place too far
NextOffset_skip(b) == Len(b) + 1

\* readDelim line 378: the offset for the next search
NextOffset(b) == Len(b)

DelimSearch(b, off, d, sq) ==
  LET location == Find(b, d, off) IN
  IF location = npos
    THEN /\ buffer' = b
         /\ UNCHANGED returned
         /\ EnqueueEnter(FALSE, MAX_BYTES, NextOffset(b))
    ELSE LET data == Substr(b, 0, location + 1) IN
         /\ buffer' = Erase(b, 0, location + 1)
         /\ returned' = returned \o data
         /\ retData' = data
         /\ retCount' = <<>>
         /\ status' = "ok"
         /\ sysreq' = sq
         /\ Leave

\* enqueueData line 231 and the caller's code after the call returns
AfterEnqueue(b, rl) ==
  CASE call.op = "enqueueData" ->
         /\ buffer' = b
         /\ retCount' = <<request_length - rl>>
         /\ retData' = <<>>
         /\ status' = "ok"
         /\ Leave
         /\ UNCHANGED <<sysreq, returned>>
    [] call.op = "read" ->
         /\ ReadFinish(b, call.n)
         /\ UNCHANGED sysreq
    [] call.op = "readDelim" ->
         DelimSearch(b, offset, call.delim, sysreq)

\* --------------------------------------------------------------- actions
\* size_t Connection::enqueueData(bool reliable, size_t request_length)
EnqueueData(rel, len) ==
  /\ pc = "idle"
  /\ StartCall("enqueueData", rel, len, NEWLINE, <<>>, FALSE)
  /\ EnqueueEnter(rel, len, 0)
  /\ writes' = 0
  /\ lastWrite' = <<>>
  /\ wrote' = 0
  /\ UNCHANGED <<buffer, fd, closes, wire, peer, delivered, returned,
                 peerFirst>>
  /\ UNCHANGED outerVars

\* std::string Connection::read(bool reliable, size_t request_length)
Read(rel, n) ==
  /\ pc = "idle"
  /\ StartCall("read", rel, n, NEWLINE, <<>>, FALSE)
  /\ LET buf_length == Len(buffer) IN
     IF NeedsEnqueue(buf_length, n)
       THEN LET remaining_length == RemainingLength(rel, n, buf_length) IN
            IF remaining_length > 0
              THEN /\ EnqueueEnter(rel, remaining_length, 0)
                   /\ UNCHANGED <<buffer, returned>>
              ELSE /\ ReadFinish(buffer, n)
                   /\ sysreq' = 0
       ELSE /\ ReadFinish(buffer, n)
            /\ sysreq' = 0
  /\ writes' = 0
  /\ lastWrite' = <<>>
  /\ wrote' = 0
  /\ UNCHANGED <<fd, closes, wire, peer, delivered, peerFirst>>
  /\ UNCHANGED outerVars

\* std::string Connection::readDelim(char delim)
ReadDelim(d) ==
  /\ pc = "idle"
  /\ StartCall("readDelim", FALSE, 0, d, <<>>, FALSE)
  /\ DelimSearch(buffer, 0, d, 0)
  /\ writes' = 0
  /\ lastWrite' = <<>>
  /\ wrote' = 0
  /\ UNCHANGED <<fd, closes, wire, peer, delivered, peerFirst>>
  /\ UNCHANGED outerVars

\* void Connection::write(std::string data, bool newline) const
\* a write that closes the descriptor when ::write fails
AfterWrite_close(f, rv) == IF rv < 0 THEN Close(f) ELSE f

\* the descriptor after line 421: the result of ::write is discarded and
\* nothing else is called
AfterWrite(f, rv) == f

Write(data, newline) ==
  /\ pc = "idle"
  /\ StartCall("write", FALSE, 0, NEWLINE, data, newline)
  /\ LET payload == WritePayload(data, newline) IN
     IF valid
       THEN /\ writes' = 1
            /\ lastWrite' = payload
            /\ wrote' \in WriteOutcomes(payload)
            /\ fd' = AfterWrite(fd, wrote')
            /\ status' = "ok"
            /\ retCount' = <<>>
            /\ retData' = <<>>
            /\ Leave
       ELSE /\ Throw("InvalidArgument")
            /\ writes' = 0
            /\ lastWrite' = <<>>
            /\ wrote' = 0
            /\ fd' = fd
  /\ sysreq' = 0
  /\ UNCHANGED <<buffer, closes, wire, peer, delivered, returned,
                 peerFirst>>
  /\ UNCHANGED outerVars

\* the pending read(2) of enqueueData returns (lines 205-229), and the code
\* runs on to the next read(2), to the return of the public call, or throws
SysRead ==
  /\ pc = "read_fn"
  /\ \E rv \in ReadOutcomes(sysreq) :
       IF ReadSucceeded(rv)
         THEN LET data_read == rv
                  data == SubSeq(wire, 1, data_read)
                  b == AppendData(buffer, data)
                  rl == read_length - data_read
              IN  /\ wire' = SubSeq(wire, data_read + 1, Len(wire))
                  /\ delivered' = delivered \o data
                  /\ got' = got \o data
                  /\ reads' = Sat(reads, MaxReads)
                  /\ return_val' = rv
                  /\ UNCHANGED <<fd, closes>>
                  /\ IF LoopAgain(reliable, rv, rl)
                       THEN /\ buffer' = b
                            /\ read_length' = rl
                            /\ sysreq' = ReadCount(rl)
                            /\ UNCHANGED <<pc, status, retCount, retData,
                                           reliable, request_length,
                                           returned, offset>>
                       ELSE AfterEnqueue(b, rl)
         ELSE /\ fd' = Close(fd)
              /\ closes' = Sat(closes, MaxCloses)
              /\ Throw("UnexpectedError")
              /\ reads' = Sat(reads, MaxReads)
              /\ return_val' = rv
              /\ UNCHANGED <<buffer, wire, delivered, got, returned, sysreq>>
  /\ UNCHANGED <<peer, writes, lastWrite, wrote, call, buf0, peerFirst>>
  /\ UNCHANGED objVars

\* the peer sends one more byte
PeerSend(b) ==
  /\ peer = "open"
  /\ Len(delivered) + Len(wire) < MaxSent
  /\ wire' = Append(wire, b)
  /\ UNCHANGED <<buffer, fd, closes, peer, delivered, returned, writes,
                 lastWrite, wrote, pc, call, reliable, request_length,
                 read_length, sysreq, return_val, offset, reads, buf0, got,
                 status, retCount, retData, peerFirst>>
  /\ UNCHANGED objVars

\* the peer shuts down its write side
PeerClose ==
  /\ peer = "open"
  /\ peer' = "closed"
  /\ UNCHANGED <<buffer, fd, closes, wire, delivered, returned, writes,
                 lastWrite, wrote, pc, call, reliable, request_length,
                 read_length, sysreq, return_val, offset, reads, buf0, got,
                 status, retCount, retData, peerFirst>>
  /\ UNCHANGED objVars

\* payloads a peer Connection hands to its write()
PeerPayloads == {<<"a">>, <<"a", NEWLINE>>, <<NEWLINE, "a", "a">>}

\* the peer is a Connection too and calls write(data, newline) on its valid
\* descriptor: the kernel takes the first k bytes of the payload, which
\* join the receive queue of this Connection
PeerWrite(data, newline) ==
  /\ peer = "open"
  /\ \E k \in WriteOutcomes(WritePayload(data, newline)) :
       /\ k >= 1
       /\ Len(delivered) + Len(wire) + k <= MaxSent
       /\ wire' = wire \o SubSeq(WritePayload(data, newline), 1, k)
       /\ peerFirst' = IF peerFirst = <<>>
                         THEN <<[data |-> data, newline |-> newline,
                                 taken |-> k]>>
                         ELSE peerFirst
  /\ UNCHANGED <<buffer, fd, closes, peer, delivered, returned, writes,
                 lastWrite, wrote, pc, call, reliable, request_length,
                 read_length, sysreq, return_val, offset, reads, buf0, got,
                 status, retCount, retData>>
  /\ UNCHANGED objVars

\* Connection::~Connection(): close the descriptor if it is still valid
Destroy ==
  /\ pc = "idle"
  /\ StartCall("~Connection", FALSE, 0, NEWLINE, <<>>, FALSE)
  /\ IF valid
       THEN /\ fd' = Close(fd)
            /\ closes' = Sat(closes, MaxCloses)
            /\ dtor' = "closed"
       ELSE /\ dtor' = "skipped"
            /\ UNCHANGED <<fd, closes>>
  /\ probe' = Probed(fd)
  /\ errno' = FcntlErrno(fd, errno)
  /\ pc' = "destroyed"
  /\ status' = "ok"
  /\ retCount' = <<>>
  /\ retData' = <<>>
  /\ writes' = 0
  /\ lastWrite' = <<>>
  /\ wrote' = 0
  /\ sysreq' = 0
  /\ UNCHANGED <<buffer, wire, peer, delivered, returned, reliable,
                 request_length, read_length, offset, peerFirst, sock, ctor,
                 sys>>

Next ==
  \/ \E rel \in BOOLEAN, len \in 0..MaxReq : EnqueueData(rel, len)
  \/ \E rel \in BOOLEAN, n \in 0..MaxReq : Read(rel, n)
  \/ \E d \in Bytes : ReadDelim(d)
  \/ \E data \in Payloads, newline \in BOOLEAN : Write(data, newline)
  \/ Destroy
  \/ SysRead
  \/ \E b \in Bytes : PeerSend(b)
  \/ PeerClose

Spec == Init /\ [][Next]_vars

\* another instance of the process opens a descriptor and the kernel hands
\* it the number this Connection closed: close (line 222) leaves the number
\* in this->socket
Reuse ==
  /\ pc = "idle"
  /\ fd = "closed"
  /\ fd' = "other"
  /\ UNCHANGED <<buffer, closes, wire, peer, delivered, returned, writes,
                 lastWrite, wrote, pc, call, reliable, request_length,
                 read_length, sysreq, return_val, offset, reads, buf0, got,
                 status, retCount, retData, peerFirst>>
  /\ UNCHANGED objVars

\* a process with other instances, where closed numbers are handed out again
NextReuse ==
  \/ \E rel \in BOOLEAN, len \in 0..MaxReq : EnqueueData(rel, len)
  \/ \E rel \in BOOLEAN, n \in 0..MaxReq : Read(rel, n)
  \/ \E d \in Bytes : ReadDelim(d)
  \/ \E data \in Payloads, newline \in BOOLEAN : Write(data, newline)
  \/ Destroy
  \/ SysRead
  \/ \E b \in Bytes : PeerSend(b)
  \/ PeerClose
  \/ Reuse

SpecReuse == Init /\ [][NextReuse]_vars

\* ---------------------------------------------------------- constructors
\* Connection::Connection(addr, port), the outbound constructor
ConnectionOut(addr, port) ==
  /\ pc = "new"
  /\ LET address == parseAddress(addr)
         args == [op |-> "Connection", addr |-> addr, laddr |-> "",
                  raddr |-> "", port |-> port, socket |-> "none",
                  status |-> "none"]
         made == [conn EXCEPT !.flow = "Outbound"]
     IN
     IF PortOutOfRange(port) \/ ~address.ok \/ ~FamilyOk(address)
       THEN /\ conn' = made
            /\ ctor' = [args EXCEPT !.status = "InvalidArgument"]
            /\ sys' = <<>>
            /\ pc' = "failed"
            /\ UNCHANGED <<fd, closes, errno>>
       ELSE /\ conn' = Dialed(made, address, port)
            /\ \E s \in SocketOutcomes, connected \in BOOLEAN :
                 /\ connected => s = "open"
                 /\ IF connected
                      THEN /\ fd' = s
                           /\ sys' = <<"socket", "connect">>
                           /\ ctor' = [args EXCEPT !.status = "ok"]
                           /\ pc' = "idle"
                           /\ UNCHANGED <<closes, errno>>
                      ELSE /\ fd' = Close(s)
                           /\ closes' = IF s = "open"
                                           THEN Sat(closes, MaxCloses)
                                           ELSE closes
                           /\ sys' = <<"socket", "connect", "close">>
                           /\ ctor' = [args EXCEPT !.status = "UnexpectedError"]
                           /\ errno' = IF s = "open" THEN EIO ELSE EBADF
                           /\ pc' = "failed"
  /\ UNCHANGED <<buffer, wire, peer, delivered, returned, writes, lastWrite,
                 wrote, call, reliable, request_length, read_length, sysreq,
                 return_val, offset, reads, buf0, got, status, retCount,
                 retData, peerFirst, sock, dtor, probe>>

\* getaddrinfo inside parseAddress: resolved is FALSE when it fails for a
\* reason other than the text handed in (EAI_MEMORY, EAI_SYSTEM)
Resolve(addr, resolved) ==
  IF resolved THEN parseAddress(addr)
              ELSE [ok |-> FALSE, ss_family |-> "AF_UNSPEC", sin |-> <<>>]

\* an inbound constructor that closes the descriptor when it fails
Adopted_closing(socket, failed) == IF failed THEN Close(socket) ELSE socket

\* the descriptor handed to the inbound constructor, after the constructor:
\* it is stored (line 97) and queried (line 99), never closed, read or
\* written, whether the constructor fails or not
Adopted(socket, failed) == socket

\* the body of Connection::Connection(laddr, raddr, port, socket), the
\* inbound constructor, called with the arguments of args; args.socket is
\* the state of the descriptor handed in
InboundBody(args, resolved) ==
  LET laddress == Resolve(args.laddr, resolved)
      raddress == Resolve(args.raddr, resolved)
      made == [conn EXCEPT !.flow = "Inbound", !.port = args.port]
      failed == \/ PortOutOfRange(args.port)
                \/ ~ValidFd(args.socket)
                \/ ~laddress.ok
                \/ ~raddress.ok
                \/ ~FamiliesMatch(laddress, raddress)
  IN
  /\ fd' = IF PortOutOfRange(args.port) THEN fd
                                        ELSE Adopted(args.socket, failed)
  /\ IF PortOutOfRange(args.port)
       THEN UNCHANGED <<errno, probe>>
       ELSE /\ probe' = Probed(args.socket)
            /\ errno' = FcntlErrno(args.socket, errno)
  /\ IF failed
       THEN /\ conn' = made
            /\ ctor' = [args EXCEPT !.status = "InvalidArgument"]
            /\ pc' = "failed"
       ELSE /\ conn' = [made EXCEPT !.family = FamilyOf(laddress),
                                    !.listen = inet_ntop(laddress),
                                    !.remote = inet_ntop(raddress)]
            /\ ctor' = [args EXCEPT !.status = "ok"]
            /\ pc' = "idle"

\* the inbound constructor where getaddrinfo works
Inbound(args) == InboundBody(args, TRUE)

\* Connection::Connection(laddr, raddr, port, socket) called by the user
ConnectionIn(laddr, raddr, port, socket) ==
  /\ pc = "new"
  /\ Inbound([op |-> "ConnectionIn", addr |-> "", laddr |-> laddr,
              raddr |-> raddr, port |-> port, socket |-> socket,
              status |-> "none"])
  /\ sys' = <<>>
  /\ UNCHANGED <<buffer, closes, wire, peer, delivered, returned, writes,
                 lastWrite, wrote, call, reliable, request_length,
                 read_length, sysreq, return_val, offset, reads, buf0, got,
                 status, retCount, retData, peerFirst, sock, dtor>>

\* Socket::Socket(addr, port)
SocketCtor(addr, port) ==
  /\ sock.st = "new"
  /\ LET address == parseAddress(addr)
         args == [op |-> "Socket", addr |-> addr, laddr |-> "",
                  raddr |-> "", port |-> port, socket |-> "none",
                  status |-> "none"]
     IN
     IF PortOutOfRange(port) \/ ~address.ok \/ ~FamilyOk(address)
       THEN /\ sock' = [sock EXCEPT !.st = "failed"]
            /\ ctor' = [args EXCEPT !.status = "InvalidArgument"]
            /\ sys' = <<>>
            /\ UNCHANGED errno
       ELSE \E s \in SocketOutcomes, bound \in BOOLEAN :
              /\ bound => s = "open"
              /\ IF bound
                   THEN /\ sock' = [st |-> "ready",
                                    family |-> FamilyOf(address),
                                    host |-> inet_ntop(address),
                                    port |-> port, fd |-> s]
                        /\ sys' = <<"socket", "bind", "setsockopt", "listen">>
                        /\ ctor' = [args EXCEPT !.status = "ok"]
                        /\ UNCHANGED errno
                   ELSE /\ sock' = [st |-> "failed",
                                    family |-> FamilyOf(address),
                                    host |-> inet_ntop(address),
                                    port |-> port, fd |-> Close(s)]
                        /\ sys' = <<"socket", "bind", "close">>
                        /\ ctor' = [args EXCEPT !.status = "UnexpectedError"]
                        /\ errno' = IF s = "open" THEN EIO ELSE EBADF
  /\ UNCHANGED <<buffer, fd, closes, wire, peer, delivered, returned, writes,
                 lastWrite, wrote, pc, call, reliable, request_length,
                 read_length, sysreq, return_val, offset, reads, buf0, got,
                 status, retCount, retData, peerFirst, conn, dtor, probe>>

\* the texts of the addresses a peer of a listening socket of family fam
\* can have
PeerAddrs(fam) ==
  {a \in Addrs : parseAddress(a).ok /\ FamilyOf(parseAddress(a)) = fam}

\* cli_addr after ::accept wrote the peer's address into it: cli_addr_len
\* bytes at most. A sockaddr_in fits into the 16 bytes of a struct sockaddr;
\* of a sockaddr_in6 the 16-byte address starts at offset 8, so only its
\* first half arrives and the second keeps the zeros of the initialiser
AcceptedAddr(address, cli_addr_len) ==
  IF address.ss_family = "AF_INET6" /\ cli_addr_len < 8 + 16
    THEN [address EXCEPT !.sin = <<address.sin[1], "0">>]
    ELSE address

\* sizeof(struct sockaddr), the cli_addr_len accept() passes
SockaddrLen == 16

\* an accept that never notices a negative descriptor
AcceptFailed_never(cli_fd) == FALSE

\* accept line 117: cli_fd < 0
AcceptFailed(cli_fd) == cli_fd = "none"

\* Socket::accept(): peer_addr is the address of the client the kernel
\* hands over, cli_fd what ::accept returns (a new open descriptor, or -1),
\* resolved whether getaddrinfo works in the constructor accept calls
AcceptBody(peer_addr, cli_fd, resolved) ==
  /\ sock.st = "ready"
  /\ pc = "new"
  /\ LET cli_addr == IF cli_fd = "none"
                       THEN [ok |-> FALSE, ss_family |-> "AF_UNSPEC",
                             sin |-> <<>>]
                       ELSE AcceptedAddr(parseAddress(peer_addr), SockaddrLen)
         raddress == IF FamilyOk(cli_addr) THEN inet_ntop(cli_addr) ELSE ""
         args == [op |-> "accept", addr |-> peer_addr, laddr |-> sock.host,
                  raddr |-> raddress, port |-> sock.port, socket |-> cli_fd,
                  status |-> "none"]
     IN
     IF ~ValidFd(sock.fd)
       THEN /\ ctor' = [args EXCEPT !.status = "UnexpectedError",
                                    !.raddr = "", !.socket = "none"]
            /\ sys' = <<>>
            /\ probe' = Probed(sock.fd)
            /\ errno' = FcntlErrno(sock.fd, errno)
            /\ UNCHANGED <<fd, pc, conn>>
       ELSE IF AcceptFailed(cli_fd)
              THEN /\ ctor' = [args EXCEPT !.status = "UnexpectedError"]
                   /\ sys' = <<"accept">>
                   /\ probe' = Probed(sock.fd)
                   /\ errno' = EIO
                   /\ UNCHANGED <<fd, pc, conn>>
              ELSE /\ InboundBody(args, resolved)
                   /\ sys' = <<"accept">>
  /\ UNCHANGED <<buffer, closes, wire, peer, delivered, returned, writes,
                 lastWrite, wrote, call, reliable, request_length,
                 read_length, sysreq, return_val, offset, reads, buf0, got,
                 status, retCount, retData, peerFirst, sock, dtor>>

\* Socket::accept() where getaddrinfo works
Accept(peer_addr, cli_fd) == AcceptBody(peer_addr, cli_fd, TRUE)

\* Socket::accept() while getaddrinfo fails for lack of resources
AcceptUnresolved(peer_addr, cli_fd) == AcceptBody(peer_addr, cli_fd, FALSE)

\* the caller closes the descriptor getDescriptor() gave it
CloseDescriptor ==
  /\ sock.st = "ready"
  /\ sock.fd = "open"
  /\ sock' = [sock EXCEPT !.fd = Close(sock.fd)]
  /\ UNCHANGED <<buffer, fd, closes, wire, peer, delivered, returned, writes,
                 lastWrite, wrote, pc, call, reliable, request_length,
                 read_length, sysreq, return_val, offset, reads, buf0, got,
                 status, retCount, retData, peerFirst, conn, ctor, sys, dtor,
                 errno, probe>>

\* construction and destruction of the two classes
NextCtor ==
  \/ \E addr \in Addrs, port \in Ports : ConnectionOut(addr, port)
  \/ \E laddr \in Addrs, raddr \in Addrs, port \in Ports,
        socket \in {"none", "open", "closed"} :
          ConnectionIn(laddr, raddr, port, socket)
  \/ \E addr \in Addrs, port \in Ports : SocketCtor(addr, port)
  \/ \E peer_addr \in PeerAddrs(sock.family), cli_fd \in SocketOutcomes :
       Accept(peer_addr, cli_fd)
  \/ CloseDescriptor
  \/ Destroy

SpecCtor == InitCtor /\ [][NextCtor]_vars

\* ------------------------------------------------------------------------
\* The unbuffered Connection::read() of the earlier Connection.cpp

\* the byte a C string ends at
NUL == "NUL"

\* std::string::operator=(const char*) on the zero-filled array the read(2)
\* wrote s into: the bytes before the first NUL
CStr(s) ==
  LET i == Find(s, NUL, 0) IN IF i = npos THEN s ELSE Substr(s, 0, i)

\* a read() that takes end-of-stream for success, as enqueueData does
OldReadFailed_neg(count) == count < 0

\* Connection.cpp line 182: the read(2) yielded no byte
OldReadFailed(count) == count < 1

\* Connection::read() up to its read(2), lines 169-178
OldRead ==
  /\ pc = "idle"
  /\ StartCall("read()", FALSE, 0, NEWLINE, <<>>, FALSE)
  /\ IF valid
       THEN /\ pc' = "read_fn"
            /\ sysreq' = MAX_BYTES - 1
            /\ status' = "running"
            /\ retCount' = <<>>
            /\ retData' = <<>>
            /\ UNCHANGED <<reliable, request_length, read_length, offset>>
       ELSE /\ Throw("InvalidArgument")
            /\ sysreq' = 0
  /\ writes' = 0
  /\ lastWrite' = <<>>
  /\ wrote' = 0
  /\ UNCHANGED <<buffer, fd, closes, wire, peer, delivered, returned,
                 peerFirst>>
  /\ UNCHANGED outerVars

\* the return of that read(2) and the rest of read(), lines 178-194
OldReadReturn ==
  /\ pc = "read_fn"
  /\ call.op = "read()"
  /\ \E count \in ReadOutcomes(sysreq) :
       /\ return_val' = count
       /\ reads' = Sat(reads, MaxReads)
       /\ IF OldReadFailed(count)
            THEN /\ fd' = Close(fd)
                 /\ closes' = Sat(closes, MaxCloses)
                 /\ Throw("UnexpectedError")
                 /\ UNCHANGED <<wire, delivered, got, returned>>
            ELSE LET data == SubSeq(wire, 1, count) IN
                 /\ wire' = SubSeq(wire, count + 1, Len(wire))
                 /\ delivered' = delivered \o data
                 /\ got' = data
                 /\ retData' = CStr(data)
                 /\ returned' = returned \o CStr(data)
                 /\ retCount' = <<>>
                 /\ status' = "ok"
                 /\ Leave
                 /\ UNCHANGED <<fd, closes>>
  /\ UNCHANGED <<buffer, peer, writes, lastWrite, wrote, call, buf0,
                 peerFirst, sysreq>>
  /\ UNCHANGED objVars

\* a Connection of the earlier version and its peer, which may send any byte
NextOld ==
  \/ OldRead
  \/ OldReadReturn
  \/ \E data \in Payloads, newline \in BOOLEAN : Write(data, newline)
  \/ Destroy
  \/ \E b \in Bytes \cup {NUL} : PeerSend(b)
  \/ PeerClose

SpecOld == Init /\ [][NextOld]_vars

\* the two classes in a process that may run short of resources
NextScarce ==
  \/ \E addr \in Addrs, port \in Ports : ConnectionOut(addr, port)
  \/ \E laddr \in Addrs, raddr \in Addrs, port \in Ports,
        socket \in {"none", "open", "closed"} :
          ConnectionIn(laddr, raddr, port, socket)
  \/ \E addr \in Addrs, port \in Ports : SocketCtor(addr, port)
  \/ \E peer_addr \in PeerAddrs(sock.family), cli_fd \in SocketOutcomes :
       Accept(peer_addr, cli_fd)
  \/ \E peer_addr \in PeerAddrs(sock.family), cli_fd \in SocketOutcomes :
       AcceptUnresolved(peer_addr, cli_fd)
  \/ CloseDescriptor
  \/ Destroy

SpecScarce == InitCtor /\ [][NextScarce]_vars

\* two connected Connections: the peer sends only through its write()
NextPair ==
  \/ \E rel \in BOOLEAN, len \in 0..MaxReq : EnqueueData(rel, len)
  \/ \E rel \in BOOLEAN, n \in 0..MaxReq : Read(rel, n)
  \/ \E d \in Bytes : ReadDelim(d)
  \/ \E data \in Payloads, newline \in BOOLEAN : Write(data, newline)
  \/ Destroy
  \/ SysRead
  \/ \E data \in PeerPayloads, newline \in BOOLEAN : PeerWrite(data, newline)
  \/ PeerClose

SpecPair == Init /\ [][NextPair]_vars

\* a blocked read(2) returns once bytes are queued or the stream has ended
SysReadOk == SysRead /\ return_val' >= 0

\* Spec with the scheduling of the blocking read(2)
LiveSpec == Spec /\ WF_vars(SysReadOk)

\* ------------------------------------------------------------ type check
SeqsUpTo(S, n) == UNION {[1..k -> S] : k \in 0..n}

TypeOK ==
  /\ buffer \in SeqsUpTo(Bytes \cup {NUL}, MaxSent)
  /\ fd \in {"none", "open", "closed", "other"}
  /\ errno \in Errnos
  /\ probe.ret \in {-1, 0}
  /\ probe.errno \in Errnos
  /\ closes \in 0..MaxCloses
  /\ wire \in SeqsUpTo(Bytes \cup {NUL}, MaxSent)
  /\ peer \in {"open", "closed"}
  /\ delivered \in SeqsUpTo(Bytes \cup {NUL}, MaxSent)
  /\ returned \in SeqsUpTo(Bytes \cup {NUL}, MaxSent)
  /\ writes \in 0..1
  /\ wrote \in -1..(MaxReq + 1)
  /\ pc \in {"new", "failed", "idle", "read_fn", "destroyed"}
  /\ call.op \in {"none", "enqueueData", "read", "readDelim", "write",
                  "~Connection", "read()"}
  /\ Len(peerFirst) <= 1
  /\ conn.flow \in {"Inbound", "Outbound"}
  /\ conn.family \in {"IPv4", "IPv6"}
  /\ sock.st \in {"new", "failed", "ready"}
  /\ sock.fd \in {"none", "open", "closed"}
  /\ ctor.op \in {"none", "Connection", "ConnectionIn", "Socket", "accept"}
  /\ ctor.status \in {"none", "ok", "InvalidArgument", "UnexpectedError"}
  /\ Len(sys) <= 4
  /\ dtor \in {"none", "closed", "skipped"}
  /\ reliable \in BOOLEAN
  /\ request_length \in 0..Max(MaxReq, MAX_BYTES)
  /\ read_length \in 0..Max(MaxReq, MAX_BYTES)
  /\ sysreq \in 0..MAX_BYTES
  /\ return_val \in -1..MAX_BYTES
  /\ offset \in 0..MaxSent
  /\ reads \in 0..MaxReads
  /\ status \in {"none", "running", "ok", "InvalidArgument", "UnexpectedError"}
  /\ Len(retCount) <= 1

\* ================================================================ claims
IsPrefix(p, q) == Len(p) <= Len(q) /\ p = SubSeq(q, 1, Len(p))

Drop(q, k) == SubSeq(q, k + 1, Len(q))

\* everything the current call could draw on: the buffer at entry followed
\* by what read(2) delivered during the call
Avail == buf0 \o got

\* the bytes read(2) delivers in a step
NewBytes == Drop(delivered', Len(delivered))

\* a step appends what read(2) delivered to the tail of the buffer and hands
\* a prefix of the result (possibly empty) to the caller
TailHeadStep ==
  /\ IsPrefix(delivered, delivered')
  /\ \E k \in 0..(Len(buffer) + Len(NewBytes)) :
       /\ returned' = returned \o SubSeq(buffer \o NewBytes, 1, k)
       /\ buffer' = Drop(buffer \o NewBytes, k)

C1_Fifo == returned \o buffer = delivered

\* C1: FIFO integrity. In every state the bytes returned so far by read and
\* readDelim, followed by the buffer, are exactly the bytes read(2) has
\* delivered so far, in delivery order: nothing lost, duplicated, reordered;
\* and every step only appends to the tail of the buffer and consumes from
\* its head.
C1_FifoIntegrity == [] C1_Fifo /\ [][TailHeadStep]_vars

C1_Witness ==
  /\ call.op = "readDelim" /\ status = "ok"
  /\ Len(retData) < Len(returned)
  /\ buffer # <<>>
  /\ got # <<>>

\* C2: read(reliable = true, n) with n > 0 on a buffer of at least n bytes
\* issues no read(2), returns the first n buffered bytes and leaves the
\* rest of the buffer in order.
C2_BufferedReliableRead ==
  (call.op = "read" /\ call.reliable /\ call.n > 0 /\ Len(buf0) >= call.n)
    => /\ pc = "idle" /\ status = "ok"
       /\ reads = 0 /\ sysreq = 0 /\ got = <<>>
       /\ retData = SubSeq(buf0, 1, call.n)
       /\ buffer = Drop(buf0, call.n)

C2_Witness ==
  /\ call.op = "read" /\ call.reliable /\ call.n > 0
  /\ Len(buf0) > call.n
  /\ status = "ok" /\ buffer # <<>>

\* C3: read(reliable = true, n) on a buffer of b < n bytes does not return
\* before read(2) has delivered the n - b missing bytes, and a normal return
\* hands out exactly n bytes: the b buffered ones, then the n - b new ones.
C3_ReliableReadShortfall ==
  (call.op = "read" /\ call.reliable /\ Len(buf0) < call.n)
    => /\ Len(got) < call.n - Len(buf0) => status # "ok"
       /\ status = "running" => pc = "read_fn"
       /\ status = "ok" => /\ Len(got) = call.n - Len(buf0)
                           /\ retData = buf0 \o got
                           /\ Len(retData) = call.n
                           /\ reads >= 1

C3_Witness ==
  /\ call.op = "read" /\ call.reliable /\ status = "ok"
  /\ buf0 # <<>> /\ Len(buf0) < call.n
  /\ reads >= 2

C4_AtMostOneRead ==
  (call.op = "read" /\ ~call.reliable)
    => /\ reads <= 1
       /\ pc = "read_fn" => reads = 0
       /\ Len(buf0) >= call.n => (reads = 0 /\ pc = "idle")
       /\ status = "ok" =>
            /\ retData = SubSeq(Avail, 1, Min(call.n, Len(Avail)))
            /\ buffer = Drop(Avail, Min(call.n, Len(Avail)))

\* the read(2) of an unreliable read(n) returns while the buffer and the
\* receive queue together hold fewer than n bytes, and the call returns
C4_ShortOfData ==
  /\ pc = "read_fn" /\ call.op = "read" /\ ~call.reliable
  /\ Len(buffer) + Len(wire) < call.n
  /\ status' = "ok"

\* ... then the call returns every byte that was available
C4_ReturnsAllAvailable ==
  C4_ShortOfData => Len(retData') = Len(buffer) + Len(wire)

\* ... then the call returns the buffered bytes and what the read delivered:
\* never more than was available, and all of it when the read delivered the
\* whole receive queue
C4_ReturnsWhatWasRead ==
  C4_ShortOfData
    => /\ retData' = buffer \o got'
       /\ buffer' = <<>>
       /\ Len(retData') <= Len(buffer) + Len(wire)
       /\ Len(got') = Len(wire) => Len(retData') = Len(buffer) + Len(wire)

\* C4 as stated: read(reliable = false, n) issues at most one read(2) per
\* call, none when the buffer already holds n bytes, returns the first
\* min(n, L) bytes of the buffer, L being its length after that read, and
\* when only k < n bytes are available in total returns exactly those k.
C4_Original == [] C4_AtMostOneRead /\ [][C4_ReturnsAllAvailable]_vars

\* C4, amended: read(reliable = false, n) issues at most one read(2) per
\* call, none when the buffer already holds n bytes, and returns the first
\* min(n, L) bytes of the buffer, L being its length after that read; when
\* only k < n bytes are available in total it returns, without waiting, the
\* buffered bytes and those the one read delivered: at most k, and exactly
\* k when that read delivered the whole receive queue.
C4_UnreliableRead == [] C4_AtMostOneRead /\ [][C4_ReturnsWhatWasRead]_vars

C4_Witness ==
  /\ call.op = "read" /\ ~call.reliable /\ status = "ok"
  /\ reads = 1 /\ buf0 # <<>>
  /\ Len(got) = MAX_BYTES /\ wire # <<>>
  /\ Len(retData) < call.n

\* C5: once read(2) has reported end of stream (returned 0) to an
\* enqueueData or read call, that call fails with UnexpectedError and the
\* Connection is not valid any more.
C5_EofRaises ==
  (call.op \in {"enqueueData", "read"} /\ reads >= 1 /\ return_val = 0)
    => (status = "UnexpectedError" /\ ~valid)

\* what a failed read(2) leaves behind, and what later calls then do
C6_FailureState ==
  /\ status = "UnexpectedError"
       => (return_val < 0 /\ fd = "closed" /\ ~valid /\ retCount = <<>>
           /\ retData = <<>> /\ pc = "idle")
  /\ (reads >= 1 /\ return_val < 0) => status = "UnexpectedError"
  /\ (~valid /\ status # "UnexpectedError" /\ call.op = "enqueueData"
      /\ call.n > 0)
       => (status = "InvalidArgument" /\ reads = 0 /\ writes = 0
           /\ buffer = buf0)
  /\ (~valid /\ call.op = "write")
       => (status = "InvalidArgument" /\ reads = 0 /\ writes = 0)

\* C6: a negative read(2) closes the descriptor before UnexpectedError is
\* raised and no count is returned; from then on valid() is false, and every
\* later enqueueData (length > 0) and write fails with InvalidArgument
\* without issuing a read(2) or a write(2).
C6_ReadFailureCloses == [] C6_FailureState /\ [][~valid => ~valid']_vars

C6_Witness ==
  /\ call.op = "write" /\ status = "InvalidArgument"
  /\ ~valid /\ closes = 1

\* C7: a reliable enqueueData of n > 0 bytes that returns normally returns n
\* and has appended exactly n bytes, also for n > MAX_BYTES; every read(2)
\* it issues asks for at least 1 byte, at most MAX_BYTES and at most the
\* bytes still outstanding, so it never appends more than n.
C7_ReliableEnqueue ==
  (call.op = "enqueueData" /\ call.reliable /\ call.n > 0)
    => /\ Len(got) <= call.n
       /\ buffer = buf0 \o got
       /\ pc = "read_fn" => /\ sysreq >= 1 /\ sysreq <= MAX_BYTES
                            /\ sysreq <= call.n - Len(got)
       /\ status = "ok" => /\ retCount = <<call.n>>
                           /\ Len(got) = call.n
                           /\ reads >= 1

C7_Witness ==
  /\ call.op = "enqueueData" /\ call.reliable /\ status = "ok"
  /\ call.n > MAX_BYTES
  /\ buf0 # <<>>

\* C8: an unreliable enqueueData of n > 0 bytes on a valid descriptor issues
\* exactly one read(2), asking for min(n, MAX_BYTES) bytes, appends exactly
\* what that read delivered and returns its count, at most min(n, MAX_BYTES).
C8_UnreliableEnqueue ==
  (call.op = "enqueueData" /\ ~call.reliable /\ call.n > 0
   /\ status # "InvalidArgument")
    => /\ sysreq = Min(call.n, MAX_BYTES)
       /\ buffer = buf0 \o got
       /\ pc = "read_fn" => (reads = 0 /\ got = <<>>)
       /\ pc = "idle" => reads = 1
       /\ status = "ok" => /\ retCount = <<Len(got)>>
                           /\ Len(got) = return_val
                           /\ Len(got) <= Min(call.n, MAX_BYTES)

C8_Witness ==
  /\ call.op = "enqueueData" /\ ~call.reliable /\ status = "ok"
  /\ call.n > MAX_BYTES /\ retCount = <<MAX_BYTES>>
  /\ buf0 # <<>>

\* C9: an unreliable enqueueData whose read(2) delivers zero bytes returns 0
\* normally: no error, the buffer unchanged, the descriptor still open.
C9_UnreliableZero ==
  (call.op = "enqueueData" /\ ~call.reliable /\ reads = 1 /\ return_val = 0)
    => /\ status = "ok" /\ pc = "idle"
       /\ retCount = <<0>>
       /\ buffer = buf0
       /\ fd = "open" /\ valid /\ closes = 0

C9_Witness ==
  /\ call.op = "enqueueData" /\ ~call.reliable /\ reads = 1
  /\ return_val = 0 /\ status = "ok"
  /\ buf0 # <<>>

\* C10: a readDelim(d) that returns hands out the shortest prefix of (buffer
\* at entry, then the bytes delivered during the call) that ends with d: d
\* occurs in the result once, as its last byte; the result is removed from
\* the buffer and all later bytes stay in the buffer, in order.
C10_ReadDelimPrefix ==
  (call.op = "readDelim" /\ status = "ok")
    => /\ retData # <<>>
       /\ retData[Len(retData)] = call.delim
       /\ \A i \in 1..(Len(retData) - 1) : retData[i] # call.delim
       /\ IsPrefix(retData, Avail)
       /\ buffer = Drop(Avail, Len(retData))
       /\ returned \o buffer = delivered

C10_Witness ==
  /\ call.op = "readDelim" /\ status = "ok"
  /\ buf0 # <<>> /\ Len(retData) > Len(buf0)
  /\ Len(returned) > Len(retData)
  /\ buffer # <<>>

\* the bytes of a sequence
Range(q) == {q[i] : i \in 1..Len(q)}

\* what holds of every readDelim call at every moment
C11_OnlyDefaultEnqueue ==
  call.op = "readDelim"
    => /\ Find(buf0, call.delim, 0) # npos
            => (reads = 0 /\ status = "ok" /\ pc = "idle")
       /\ pc = "read_fn"
            => (~reliable /\ request_length = MAX_BYTES /\ sysreq = MAX_BYTES
                /\ Find(buffer, call.delim, 0) = npos)
       /\ writes = 0

\* readDelim is blocked in read(2) and the peer has sent the delimiter
C11_DelimiterSent ==
  call.op = "readDelim" /\ pc = "read_fn" /\ call.delim \in Range(wire)

\* the readDelim call is over: it returned, or a read(2) failed
C11_CallOver ==
  /\ call.op = "readDelim" /\ pc = "idle"
  /\ status = "ok" \/ (status = "UnexpectedError" /\ return_val < 0)

\* C11: readDelim with the delimiter already buffered returns without a
\* read(2); otherwise it only uses unreliable enqueueData calls of MAX_BYTES
\* bytes, and once the peer has sent the delimiter and every read(2)
\* returns, readDelim returns (or a read(2) has failed).
C11_ReadDelimLive ==
  [] C11_OnlyDefaultEnqueue /\ (C11_DelimiterSent ~> C11_CallOver)

C11_Witness ==
  /\ call.op = "readDelim" /\ status = "ok"
  /\ reads >= 2 /\ buf0 # <<>>

\* C12: once a read(2) has reported an error or end of stream to readDelim,
\* the call is over with UnexpectedError: it neither waits nor reads again.
C12_ResetAbortsReadDelim ==
  (call.op = "readDelim" /\ reads >= 1 /\ return_val <= 0)
    => (status = "UnexpectedError" /\ pc = "idle")

\* what holds of every enqueueData call that meets a zero length or an
\* invalid descriptor
C13_Rejected ==
  call.op = "enqueueData"
    => /\ call.n = 0 => status = "InvalidArgument"
       /\ (~valid /\ status # "UnexpectedError") => status = "InvalidArgument"
       /\ status = "InvalidArgument"
            => /\ call.n = 0 \/ ~valid
               /\ pc = "idle" /\ reads = 0 /\ sysreq = 0 /\ got = <<>>
               /\ buffer = buf0 /\ retCount = <<>>

\* a step that ends in a rejected enqueueData leaves buffer and descriptor
C13_RejectionStep ==
  (pc = "idle" /\ pc' = "idle" /\ call'.op = "enqueueData"
   /\ status' = "InvalidArgument")
    => (buffer' = buffer /\ fd' = fd /\ closes' = closes
        /\ delivered' = delivered /\ returned' = returned)

\* C13: enqueueData raises InvalidArgument when request_length is 0 or the
\* descriptor is not valid; it then issues no read(2), leaves the buffer
\* unchanged and neither closes nor changes the descriptor.
C13_EnqueueRejects == [] C13_Rejected /\ [][C13_RejectionStep]_vars

C13_Witness ==
  /\ call.op = "enqueueData" /\ status = "InvalidArgument"
  /\ call.n > 0 /\ ~valid
  /\ buffer # <<>>

\* C14 as stated: read(reliable, 0) is rejected with InvalidArgument.
C14_Original == (call.op = "read" /\ call.n = 0) => status = "InvalidArgument"

\* C14, amended: read(reliable, 0), in either mode and whatever the buffer
\* holds, is not rejected: it returns the empty string, issues no read(2)
\* and leaves the buffer unchanged; only enqueueData rejects a zero length.
C14_ZeroLengthRead ==
  /\ (call.op = "read" /\ call.n = 0)
       => (status = "ok" /\ pc = "idle" /\ retData = <<>> /\ reads = 0
           /\ sysreq = 0 /\ buffer = buf0)
  /\ (call.op = "enqueueData" /\ call.n = 0) => status = "InvalidArgument"

C14_Witness ==
  /\ call.op = "read" /\ call.n = 0 /\ ~call.reliable
  /\ status = "ok" /\ buf0 = <<>> /\ valid /\ wire # <<>>


\* C15: write(data, newline) on an invalid descriptor fails with
\* InvalidArgument and issues no write(2); on a valid descriptor it issues
\* exactly one write(2), whose payload is data followed by one newline byte
\* iff newline is true, whatever that write(2) returns: a short write is not
\* retried.
C15_WriteOnce ==
  call.op = "write" =>
    /\ pc = "idle"
    /\ reads = 0
    /\ fd # "open" =>
         (status = "InvalidArgument" /\ writes = 0 /\ lastWrite = <<>>)
    /\ fd = "open" =>
         /\ status = "ok"
         /\ writes = 1
         /\ lastWrite = IF call.newline THEN call.data \o <<NEWLINE>>
                                        ELSE call.data

\* a write with newline whose write(2) took only part of the payload
C15_Witness ==
  /\ call.op = "write"
  /\ call.newline
  /\ call.data # <<>>
  /\ wrote >= 1
  /\ wrote < Len(lastWrite)
  /\ writes = 1
  /\ status = "ok"

\* the first read of the stream: nothing buffered before the call, and all
\* that was ever returned to the caller is what this call returned
FirstRead == buf0 = <<>> /\ returned = retData

\* C16: when the peer Connection calls write(data, newline=false) with
\* non-empty data and all of it is delivered, read(reliable=true, len(data))
\* on an empty buffer returns exactly data, however the delivery is split
\* over the underlying reads.
C16_RoundTrip ==
  ( /\ call.op = "read"
    /\ call.reliable
    /\ status = "ok"
    /\ FirstRead
    /\ peerFirst # <<>> ) =>
      LET w == peerFirst[1] IN
      ( /\ ~w.newline
        /\ w.data # <<>>
        /\ w.taken = Len(w.data)
        /\ call.n = Len(w.data) ) => retData = w.data

\* a two-byte write read back through two underlying reads
C16_Witness ==
  /\ call.op = "read"
  /\ call.reliable
  /\ status = "ok"
  /\ FirstRead
  /\ peerFirst = <<[data |-> <<"a", NEWLINE>>, newline |-> FALSE,
                    taken |-> 2]>>
  /\ call.n = 2
  /\ reads = 2
  /\ retData = <<"a", NEWLINE>>

\* C17: over the lifetime of a constructed Connection, whatever calls are
\* made and whichever fail, the descriptor is closed exactly once: never
\* twice, by the destructor if it is still open then, and not again when an
\* earlier failure closed it.
C17_ClosedOnce ==
  /\ closes <= 1
  /\ fd = "open" <=> closes = 0
  /\ pc = "destroyed" <=> dtor # "none"
  /\ pc = "destroyed" => (closes = 1 /\ fd = "closed")

\* destroyed after a read failure had closed the descriptor
C17_Witness ==
  /\ pc = "destroyed"
  /\ dtor = "skipped"
  /\ closes = 1
  /\ fd = "closed"

\* C18: an outbound Connection or a Socket constructed with a port outside
\* 1..65535 fails with InvalidArgument before any socket-level system call,
\* and no descriptor is opened.
C18_PortRejected ==
  (ctor.op \in {"Connection", "Socket"} /\ ctor.port \notin 1..65535) =>
    /\ ctor.status = "InvalidArgument"
    /\ sys = <<>>
    /\ ctor.op = "Connection" => (fd = "none" /\ pc = "failed")
    /\ ctor.op = "Socket" => (sock.fd = "none" /\ sock.st = "failed")

\* Socket("127.0.0.1", 70000): only the port is wrong
C18_Witness ==
  /\ ctor.op = "Socket"
  /\ ctor.port = 70000
  /\ ctor.addr = "127.0.0.1"
  /\ ctor.status = "InvalidArgument"

\* what the inbound constructor asks of its arguments
InboundArgsOk ==
  /\ ctor.port \in 1..65535
  /\ ctor.socket = "open"
  /\ ctor.laddr \in {"127.0.0.1", "::1", "0:0:0:0:0:0:0:1"}
  /\ ctor.raddr \in {"127.0.0.1", "::1", "0:0:0:0:0:0:0:1"}
  /\ ctor.laddr = "127.0.0.1" <=> ctor.raddr = "127.0.0.1"

\* C19: the inbound constructor succeeds only when the port is in 1..65535,
\* the descriptor is valid and both addresses resolve to the same family,
\* IPv4 or IPv6; anything else, such as an IPv4 listen address with an IPv6
\* remote address, fails with InvalidArgument. It makes no system call on a
\* socket, and on success stores both addresses as canonical text.
C19_InboundChecks ==
  ctor.op = "ConnectionIn" =>
    /\ sys = <<>>
    /\ conn.flow = "Inbound"
    /\ ctor.status = IF InboundArgsOk THEN "ok" ELSE "InvalidArgument"
    /\ ~InboundArgsOk => pc = "failed"
    /\ InboundArgsOk =>
         /\ pc \in {"idle", "destroyed"}
         /\ conn.port = ctor.port
         /\ conn.family = IF ctor.laddr = "127.0.0.1" THEN "IPv4" ELSE "IPv6"
         /\ conn.listen = IF ctor.laddr = "127.0.0.1" THEN "127.0.0.1"
                                                      ELSE "::1"
         /\ conn.remote = conn.listen

\* IPv4 listen address, IPv6 remote address, all else in order
C19_Witness ==
  /\ ctor.op = "ConnectionIn"
  /\ ctor.port = 1
  /\ ctor.socket = "open"
  /\ ctor.laddr = "127.0.0.1"
  /\ ctor.raddr = "::1"
  /\ ctor.status = "InvalidArgument"

\* C20: a constructor that opened a descriptor and then fails does not
\* leave it open: when connect (outbound Connection) or bind (Socket)
\* fails, close is the last system call before UnexpectedError is raised.
C20_ClosedOnFailure ==
  /\ (ctor.op \in {"Connection", "Socket"}
      /\ ctor.status = "UnexpectedError") =>
       /\ sys # <<>>
       /\ sys[1] = "socket"
       /\ sys[Len(sys)] = "close"
  /\ (pc = "failed" /\ conn.flow = "Outbound") => fd # "open"
  /\ sock.st = "failed" => sock.fd # "open"

\* bind failed on a descriptor socket() had opened
C20_Witness ==
  /\ ctor.op = "Socket"
  /\ ctor.status = "UnexpectedError"
  /\ sys = <<"socket", "bind", "close">>
  /\ sock.fd = "closed"


\* C21: a successful Socket::accept returns a Connection with flow Inbound,
\* the Socket's host as listen address, the Socket's port, the accepted
\* peer's address as remote address, the newly accepted descriptor (valid)
\* and an empty buffer.
C21_AcceptedConnection ==
  (ctor.op = "accept" /\ ctor.status = "ok" /\ pc = "idle") =>
    /\ conn.flow = "Inbound"
    /\ conn.listen = sock.host
    /\ conn.port = sock.port
    /\ conn.family = sock.family
    /\ conn.remote = inet_ntop(parseAddress(ctor.addr))
    /\ fd = "open"
    /\ buffer = <<>>

\* what an accept call leaves behind
C22_AcceptOutcome ==
  ctor.op = "accept" =>
    /\ ctor.status \in {"ok", "UnexpectedError"}
    /\ ctor.status = "UnexpectedError" =>
         /\ pc = "new"
         /\ fd = "none"
         /\ \/ sys = <<>> /\ sock.fd # "open"
            \/ sys = <<"accept">> /\ ctor.socket = "none"
    /\ ctor.status = "ok" =>
         /\ sys = <<"accept">>
         /\ ctor.socket = "open"
         /\ pc \in {"idle", "destroyed"}

\* an accept on a Socket whose descriptor is invalid makes no system call
C22_InvalidListenerStep ==
  (sock.st = "ready" /\ sock.fd # "open" /\ ctor' # ctor
   /\ ctor'.op = "accept")
    => (ctor'.status = "UnexpectedError" /\ sys' = <<>> /\ pc' = pc
        /\ fd' = fd)

C23_MembersStep == pc \in {"idle", "read_fn"} => conn' = conn

\* C23: family, flow, port, listen address and remote address of a
\* Connection are fixed at construction: no enqueueData, read, readDelim,
\* write or valid call, successful or failing, changes any of them.
C23_MembersFixed ==
  /\ [] (conn = [family |-> "IPv4", flow |-> "Outbound", listen |-> "",
                 port |-> 1, remote |-> "127.0.0.1"])
  /\ [][C23_MembersStep]_vars

\* a read that failed half way, a write refused afterwards: still the
\* members of Connection("127.0.0.1", 1)
C23_Witness ==
  /\ call.op = "write"
  /\ status = "InvalidArgument"
  /\ closes = 1
  /\ buffer # <<>>
  /\ conn.flow = "Outbound"
  /\ conn.port = 1
  /\ conn.remote = "127.0.0.1"

\* C24: a successfully constructed outbound Connection has flow Outbound,
\* an empty listen address, the port dialed and a valid descriptor; a
\* successfully constructed inbound Connection has flow Inbound and the
\* listening port passed in.
C24_Constructed ==
  /\ (ctor.op = "Connection" /\ ctor.status = "ok") =>
       /\ conn.flow = "Outbound"
       /\ conn.listen = ""
       /\ conn.port = ctor.port
       /\ pc \in {"idle", "destroyed"}
       /\ pc = "idle" => (fd = "open" /\ valid)
  /\ (ctor.op \in {"ConnectionIn", "accept"} /\ ctor.status = "ok") =>
       /\ conn.flow = "Inbound"
       /\ conn.port = ctor.port
       /\ pc \in {"idle", "destroyed"}

\* Connection("::1", 65535) whose connect succeeded
C24_Witness ==
  /\ ctor.op = "Connection"
  /\ ctor.status = "ok"
  /\ ctor.addr = "::1"
  /\ ctor.port = 65535
  /\ conn.port = 65535
  /\ pc = "idle"

\* C25: in every reachable state the buffer of a Connection holds at most
\* MAX_BYTES bytes.
C25_BufferBounded == Len(buffer) <= MAX_BYTES

C27_NoReadAfterEof ==
  (pc = "read_fn" /\ reliable /\ reads >= 1) => return_val > 0

\* the descriptor number of this Connection names a descriptor of another
\* instance
Foreign == fd = "other"

\* C28: where closed descriptor numbers are reused by other instances, a
\* Connection that closed its descriptor on a read failure keeps valid()
\* false and never writes to, reads from or closes the descriptor another
\* instance has since been given under the same number.
C28_NoForeignAccess ==
  /\ Foreign => ~valid
  /\ Foreign => pc # "read_fn"
  /\ (Foreign /\ call.op = "write") => writes = 0
  /\ closes <= 1

\* C29: a failing read or readDelim consumes nothing: every byte buffered
\* before the call is still in the buffer, in order, followed by the bytes
\* the successful underlying reads of the failing call appended.
C29_FailureKeepsBuffer ==
  (call.op \in {"read", "readDelim"}
   /\ status \in {"InvalidArgument", "UnexpectedError"}) =>
    /\ buffer = buf0 \o got
    /\ retData = <<>>
    /\ returned \o buf0 \o got = delivered
    /\ pc = "idle"

\* a read that found bytes buffered, received more and then failed
C29_Witness ==
  /\ call.op = "read"
  /\ status = "UnexpectedError"
  /\ buf0 # <<>>
  /\ got # <<>>
  /\ buffer = buf0 \o got

\* the descriptor was closed before the current call was made
ClosedBefore == fd = "closed" /\ status # "UnexpectedError"

\* C30: buffered data outlives the descriptor: once a read failure has
\* closed it, read(reliable, n) with n at most the buffer length and
\* readDelim(d) with d in the buffer still return the buffered bytes, without
\* an underlying read; a call that needs more fails with InvalidArgument and
\* leaves the buffer as it was.
C30_BufferOutlivesDescriptor ==
  /\ (ClosedBefore /\ call.op = "read") =>
       /\ reads = 0
       /\ pc = "idle"
       /\ IF call.n <= Len(buf0)
            THEN /\ status = "ok"
                 /\ retData = SubSeq(buf0, 1, call.n)
                 /\ buffer = Drop(buf0, call.n)
            ELSE /\ status = "InvalidArgument"
                 /\ buffer = buf0
  /\ (ClosedBefore /\ call.op = "readDelim") =>
       /\ reads = 0
       /\ pc = "idle"
       /\ IF call.delim \in Range(buf0)
            THEN /\ status = "ok"
                 /\ retData # <<>>
                 /\ retData[Len(retData)] = call.delim
                 /\ retData \o buffer = buf0
            ELSE /\ status = "InvalidArgument"
                 /\ buffer = buf0

\* an unreliable read of the whole buffer after the descriptor was closed
C30_Witness ==
  /\ call.op = "read"
  /\ ~call.reliable
  /\ fd = "closed"
  /\ closes = 1
  /\ status = "ok"
  /\ call.n >= 1
  /\ call.n = Len(buf0)
  /\ retData = buf0

\* C31: an unreliable read(n) that finds fewer than n bytes buffered tops
\* up once, asking the underlying read for exactly MAX_BYTES bytes whatever
\* n and the shortfall are; what arrives beyond the bytes returned stays in
\* the buffer, ahead of everything later, for the next read.
C31_UnreliableTopUp ==
  (call.op = "read" /\ ~call.reliable /\ Len(buf0) < call.n) =>
    /\ pc = "read_fn" => (reads = 0 /\ sysreq = MAX_BYTES)
    /\ status = "InvalidArgument" => reads = 0
    /\ status \in {"ok", "UnexpectedError"} =>
         (reads = 1 /\ sysreq = MAX_BYTES)
    /\ status = "ok" =>
         /\ retData \o buffer = buf0 \o got
         /\ Len(retData) = Min(call.n, Len(buf0 \o got))
    /\ returned \o buffer = delivered

\* one byte was buffered, two were asked for, MAX_BYTES arrived: one stays
C31_Witness ==
  /\ call.op = "read"
  /\ ~call.reliable
  /\ status = "ok"
  /\ Len(buf0) = 1
  /\ call.n = 2
  /\ Len(got) = MAX_BYTES
  /\ Len(retData) = 2
  /\ buffer # <<>>

\* C32: a successful reliable read(n) that had to enqueue leaves the buffer
\* empty: it pulls exactly the missing bytes from the descriptor, never one
\* beyond the n-th byte it returns.
C32_ReliableReadExact ==
  (call.op = "read" /\ call.reliable /\ Len(buf0) < call.n) =>
    /\ Len(buf0 \o got) <= call.n
    /\ status = "ok" =>
         /\ buffer = <<>>
         /\ retData = buf0 \o got
         /\ Len(retData) = call.n

\* more was waiting on the descriptor than the read needed
C32_Witness ==
  /\ call.op = "read"
  /\ call.reliable
  /\ status = "ok"
  /\ buf0 # <<>>
  /\ Len(buf0) < call.n
  /\ reads >= 2
  /\ wire # <<>>
  /\ buffer = <<>>

\* C33: when Socket::accept returns or throws, every descriptor the accept
\* system call returned is owned by the returned Connection or closed; when
\* constructing the Connection fails, the accepted descriptor is not left
\* open and unowned.
C33_AcceptedDescriptorOwned ==
  (ctor.op = "accept" /\ ctor.socket = "open") =>
    \/ ctor.status = "ok" /\ pc \in {"idle", "destroyed"}
    \/ fd # "open"

\* C34: an inbound construction that fails with InvalidArgument changes no
\* resource state: the descriptor handed in is not closed, read from or
\* written to, and no system call is made on a socket.
C34_FailedInboundTouchesNothing ==
  (ctor.op = "ConnectionIn" /\ ctor.status = "InvalidArgument") =>
    /\ pc = "failed"
    /\ sys = <<>>
    /\ closes = 0
    /\ reads = 0
    /\ writes = 0
    /\ delivered = <<>>
    /\ buffer = <<>>
    /\ fd = IF ctor.port \in 1..65535 THEN ctor.socket ELSE "none"

\* an open descriptor handed in with addresses of two families
C34_Witness ==
  /\ ctor.op = "ConnectionIn"
  /\ ctor.status = "InvalidArgument"
  /\ ctor.socket = "open"
  /\ ctor.port = 1
  /\ ctor.laddr = "::1"
  /\ ctor.raddr = "127.0.0.1"
  /\ fd = "open"

\* C35: write never touches the read side: from the call of write on,
\* until the next call, the buffer is the one write found, no read(2) was
\* issued, and the step of write neither changes the buffer, nor closes the
\* descriptor, nor consumes from the stream; enqueueData, read and
\* readDelim never issue an underlying write.
C35_WriteLeavesReadSide ==
  /\ [](call.op = "write" =>
          /\ buffer = buf0
          /\ reads = 0
          /\ got = <<>>
          /\ pc \in {"idle", "failed"})
  /\ [](call.op \in {"enqueueData", "read", "readDelim"} =>
          /\ writes = 0
          /\ lastWrite = <<>>)
  /\ [][call'.op = "write" =>
          UNCHANGED <<buffer, fd, closes, delivered, returned>>]_vars

\* a failing write on an open descriptor with bytes waiting in the buffer
C35_Witness ==
  /\ call.op = "write"
  /\ status = "ok"
  /\ writes = 1
  /\ wrote = -1
  /\ buffer # <<>>
  /\ fd = "open"

\* C37: inside enqueueData every read(2) asks for a count between 1 and
\* MAX_BYTES, never more than the outstanding count; one read never
\* delivers more than the outstanding count, which so never goes below 0,
\* and the total returned lies between 0 and the capped requested length.
C37_CounterNeverUnderflows ==
  /\ [](pc = "read_fn" =>
          /\ sysreq \in 1..MAX_BYTES
          /\ sysreq <= read_length
          /\ read_length <= request_length
          /\ call.op # "readDelim" =>
               request_length - read_length = Len(got))
  /\ [](read_length >= 0)
  /\ [](\A k \in Range(retCount) :
          /\ 0 <= k
          /\ k <= CappedRequest(call.reliable, call.n)
          /\ k = Len(got))
  /\ [][pc = "read_fn" => Len(got') - Len(got) <= read_length]_vars

\* the second read(2) of a reliable request larger than MAX_BYTES asks for
\* what is outstanding
C37_Witness ==
  /\ call.op = "enqueueData"
  /\ call.reliable
  /\ call.n = MAX_BYTES + 1
  /\ pc = "read_fn"
  /\ Len(got) = MAX_BYTES
  /\ sysreq = 1
  /\ read_length = 1

\* C38: readDelim's incremental search is the search of the whole buffer:
\* whenever the loop waits for more data the offset is at most the buffer's
\* length and no delimiter lies in the buffer; the search from the offset
\* after a read(2) finds what the search from 0 finds, and the call returns
\* the bytes up to the first delimiter of everything it had.
C38_IncrementalSearch ==
  /\ []((call.op = "readDelim" /\ pc = "read_fn") =>
          /\ offset <= Len(buffer)
          /\ buffer = buf0 \o got
          /\ Find(buffer, call.delim, 0) = npos)
  /\ [][(call.op = "readDelim" /\ pc = "read_fn") =>
          Find(buf0 \o got', call.delim, offset)
            = Find(buf0 \o got', call.delim, 0)]_vars
  /\ []((call.op = "readDelim" /\ status = "ok") =>
          LET whole == buf0 \o got
              first == Find(whole, call.delim, 0)
          IN  /\ first # npos
              /\ retData = Substr(whole, 0, first + 1)
              /\ buffer = Erase(whole, 0, first + 1))

\* the delimiter arrives with the second read(2), behind buffered bytes
C38_Witness ==
  /\ call.op = "readDelim"
  /\ status = "ok"
  /\ buf0 # <<>>
  /\ reads = 2
  /\ Len(retData) = 3
  /\ Len(got) = 2

\* C36: the unbuffered read() issues one read(2) of at most MAX_BYTES - 1
\* bytes on a valid descriptor; when that read yields fewer than 1 byte
\* (end-of-stream or error) it closes the descriptor and raises
\* UnexpectedError, and the Connection is invalid afterwards; on an invalid
\* descriptor it raises InvalidArgument without reading.
C36_UnbufferedRead ==
  /\ [](call.op = "read()" =>
          /\ reads <= 1
          /\ Len(got) <= MAX_BYTES - 1
          /\ buffer = buf0
          /\ pc = "read_fn" => (reads = 0 /\ sysreq = MAX_BYTES - 1 /\ valid)
          /\ status = "ok" => (reads = 1 /\ return_val = Len(got)
                                /\ return_val >= 1)
          /\ status = "UnexpectedError" =>
               (reads = 1 /\ return_val < 1 /\ got = <<>> /\ ~valid)
          /\ status = "InvalidArgument" =>
               (reads = 0 /\ got = <<>> /\ ~valid))
  /\ [][(call.op = "read()" /\ pc = "read_fn" /\ pc' = "idle") =>
          IF return_val' < 1
            THEN /\ status' = "UnexpectedError"
                 /\ fd' = "closed"
                 /\ closes' = Sat(closes, MaxCloses)
                 /\ UNCHANGED <<wire, delivered, returned>>
            ELSE /\ status' = "ok"
                 /\ UNCHANGED <<fd, closes>>]_vars
  /\ [][(call'.op = "read()" /\ pc = "idle" /\ ~valid) =>
          UNCHANGED <<fd, closes, delivered, returned>>]_vars

\* end-of-stream met by the unbuffered read()
C36_Witness ==
  /\ call.op = "read()"
  /\ status = "UnexpectedError"
  /\ return_val = 0
  /\ reads = 1
  /\ fd = "closed"
  /\ peer = "closed"
  /\ returned # <<>>

====
